---- MODULE Spec2Model ----
(***************************************************************************)
(* ai-secretary: the document buffer, the edit and read tools and the      *)
(* agent loop of src/main.ts, with the session of main() around them.      *)
(* A string is a sequence of one-character strings.                        *)
(***************************************************************************)
EXTENDS Integers, Sequences, FiniteSets, TLC

VARIABLES
    pc,               \* where main() / EditorAgent stands
    originalContents, \* DocumentBuffer.originalContents
    contents,         \* DocumentBuffer.contents
    messages,         \* EditorAgent.messages
    currentMode,      \* iteration(): let currentMode
    toolCalls,        \* iteration(): the tool calls of the stream of this turn
    idx,              \* iteration(): position of the for-of loop over the tool calls
    toolResultParts,  \* iteration(): const toolResultParts
    requests,         \* number of streamText() calls made so far
    runRequests,      \* streamText() calls made by the current run()
    runToolMessages,  \* tool-role messages pushed by the current run()
    nextCallId,       \* the identifier the model gives to its next tool call
    previousText,     \* main(): let previousText
    saved,            \* the texts handed to documentEditor.save()
    outcome,          \* how main() ended, "running" until it ends
    loaded,           \* the text documentEditor.load() returned
    requestMessages,  \* the messages handed to the last streamText() call
    receivedRevision, \* createCreatorsgartenWikiEditor: let receivedRevision
    wikiLoads,        \* the revisions the wiki has answered to view requests
    saveRequests,     \* the save requests sent to the wiki
    wikiThrown        \* whether the last call of the wiki editor threw

vars == <<pc, originalContents, contents, messages, currentMode, toolCalls, idx,
          toolResultParts, requests, runRequests, runToolMessages, nextCallId,
          previousText, saved, outcome, loaded, requestMessages,
          receivedRevision, wikiLoads, saveRequests, wikiThrown>>

\* the state of the session and the state of the wiki document editor
sessionVars == <<pc, originalContents, contents, messages, currentMode, toolCalls,
                 idx, toolResultParts, requests, runRequests, runToolMessages,
                 nextCallId, previousText, saved, outcome, loaded, requestMessages>>
wikiVars == <<receivedRevision, wikiLoads, saveRequests, wikiThrown>>

----------------------------------------------------------------------------
(* Bounds of the model. *)

\* tool calls the model emits in one session
MaxCalls == 3
\* streamText() calls in one session
MaxRequests == 3
\* feedback texts the human gives in one session
MaxFeedback == 1
\* length of the documents and of the search and replace texts of EditSpec
MaxDocLen == 4
MaxSearchLen == 2
MaxReplaceLen == 2
\* largest declared occurrences value of EditSpec
MaxOccurrences == 3
\* length of the loaded texts of LoadSpec
MaxRawLen == 4
\* requests the wiki editor of WikiSpec sends (view and save together)
MaxWikiCalls == 4

----------------------------------------------------------------------------
(* Strings. *)

SP == " "
LF == "\n"
CR == "\r"

\* the strings over alphabet of length 0..n
StringsUpTo(alphabet, n) == UNION {[1..k -> alphabet] : k \in 0..n}

\* s.startsWith(t, i - 1): t stands in s at the 1-based position i
MatchesAt(s, t, i) ==
    /\ i + Len(t) - 1 <= Len(s)
    /\ \A k \in 1..Len(t) : s[i + k - 1] = t[k]

\* s.indexOf(t, from - 1) + 1: the first position >= from where t stands, 0 if none
RECURSIVE indexOf(_, _, _)
indexOf(s, t, from) ==
    IF from + Len(t) - 1 > Len(s) THEN 0
    ELSE IF MatchesAt(s, t, from) THEN from
    ELSE indexOf(s, t, from + 1)

\* split gone wrong: the scan resumes one character after the start of a match
\* instead of after its end, so overlapping matches are split on too
RECURSIVE SplitFrom_Overlapping(_, _, _)
SplitFrom_Overlapping(s, sep, p) ==
    LET q == indexOf(s, sep, p) IN
    IF q = 0 THEN <<SubSeq(s, p, Len(s))>>
    ELSE <<SubSeq(s, p, q - 1)>> \o SplitFrom_Overlapping(s, sep, q + 1)

\* String.prototype.split for a non-empty separator, scanning from position p
RECURSIVE SplitFrom(_, _, _)
SplitFrom(s, sep, p) ==
    LET q == indexOf(s, sep, p) IN
    IF q = 0 THEN <<SubSeq(s, p, Len(s))>>
    ELSE <<SubSeq(s, p, q - 1)>> \o SplitFrom(s, sep, q + Len(sep))

\* String.prototype.split(sep): an empty separator splits between the code units,
\* and the empty string split by the empty separator is the empty array
split(s, sep) ==
    IF Len(sep) = 0 THEN [k \in 1..Len(s) |-> <<s[k]>>]
    ELSE SplitFrom(s, sep, 1)

\* Array.prototype.join(sep)
RECURSIVE join(_, _)
join(pieces, sep) ==
    IF Len(pieces) = 0 THEN <<>>
    ELSE IF Len(pieces) = 1 THEN pieces[1]
    ELSE pieces[1] \o sep \o join(Tail(pieces), sep)

\* s.replace(/[ ]*\r?\n/g, "\n") from position i: the run of spaces at i is
\* consumed only when "\n" or "\r\n" follows it
RECURSIVE SkipSpaces(_, _)
SkipSpaces(s, i) ==
    IF i <= Len(s) /\ s[i] = SP THEN SkipSpaces(s, i + 1) ELSE i

RECURSIVE NormalizeFrom(_, _)
NormalizeFrom(s, i) ==
    IF i > Len(s) THEN <<>>
    ELSE LET j == SkipSpaces(s, i) IN
         IF j <= Len(s) /\ s[j] = LF
         THEN <<LF>> \o NormalizeFrom(s, j + 1)
         ELSE IF j + 1 <= Len(s) /\ s[j] = CR /\ s[j + 1] = LF
         THEN <<LF>> \o NormalizeFrom(s, j + 2)
         ELSE <<s[i]>> \o NormalizeFrom(s, i + 1)

normalizeLineEndings(s) == NormalizeFrom(s, 1)

\* String.prototype.trim
IsWhite(c) == c \in {SP, LF, CR}

RECURSIVE TrimStart(_)
TrimStart(s) ==
    IF Len(s) > 0 /\ IsWhite(s[1]) THEN TrimStart(Tail(s)) ELSE s

RECURSIVE TrimEnd(_)
TrimEnd(s) ==
    IF Len(s) > 0 /\ IsWhite(s[Len(s)]) THEN TrimEnd(SubSeq(s, 1, Len(s) - 1)) ELSE s

trim(s) == TrimEnd(TrimStart(s))

----------------------------------------------------------------------------
(* The tools (tools.ts) and their implementation over the buffer. *)

\* the tool names the model may emit: tools declares edit and read; the prompt of
\* getPrompt() also names a "finish" tool, which no handler implements
ToolNames == {"edit", "read", "finish"}
Handlers == {"edit", "read"}

\* arguments as the model writes them: occurrences is <<>> when left out
RawArgs(search, replace, occurrences) ==
    [search |-> search, replace |-> replace, occurrences |-> occurrences]

NoArgs == RawArgs(<<>>, <<>>, <<>>)

\* occurrences: z.number().default(1)
parameters(raw) ==
    [search |-> raw.search,
     replace |-> raw.replace,
     occurrences |-> IF Len(raw.occurrences) = 0 THEN 1 ELSE raw.occurrences[1]]

\* a ToolResult: isError and the result string, kept as its kind, the count it
\* prints and the text it carries
ToolResult(isError, kind, matches, text) ==
    [isError |-> isError, kind |-> kind, matches |-> matches, text |-> text]

NoMatch == ToolResult(TRUE, "NoMatch", 0, <<>>)
Ambiguous(matches) == ToolResult(TRUE, "Ambiguous", matches, <<>>)
Edited == ToolResult(FALSE, "Edited", 0, <<>>)
Page(text) == ToolResult(FALSE, "Page", 0, <<"<wiki_page>", LF>> \o text \o <<LF, "</wiki_page>">>)
InternalError(error) == ToolResult(TRUE, "Internal", 0, <<error>>)

\* the buffer with its contents set: buffer.contents = text
SetContents(buffer, text) == [buffer EXCEPT !.contents = text]

\* edit gone wrong: no check of the declared occurrences
edit_NoCountCheck(buffer, args) ==
    LET splitted == split(buffer.contents, args.search)
        matches == Len(splitted) - 1
    IN  IF matches = 0
        THEN [result |-> NoMatch, buffer |-> buffer]
        ELSE [result |-> Edited,
              buffer |-> SetContents(buffer, join(splitted, args.replace))]

\* edit gone wrong: only the first occurrence is replaced, as by
\* contents.replace(search, replace)
edit_ReplaceFirst(buffer, args) ==
    LET splitted == split(buffer.contents, args.search)
        matches == Len(splitted) - 1
    IN  IF matches = 0
        THEN [result |-> NoMatch, buffer |-> buffer]
        ELSE IF matches # args.occurrences
        THEN [result |-> Ambiguous(matches), buffer |-> buffer]
        ELSE [result |-> Edited,
              buffer |-> SetContents(buffer, splitted[1] \o args.replace
                                             \o join(Tail(splitted), args.search))]

\* edit gone wrong: the declared occurrences are checked before the no-match case
edit_CountCheckFirst(buffer, args) ==
    LET splitted == split(buffer.contents, args.search)
        matches == Len(splitted) - 1
    IN  IF matches # args.occurrences
        THEN [result |-> Ambiguous(matches), buffer |-> buffer]
        ELSE IF matches = 0
        THEN [result |-> NoMatch, buffer |-> buffer]
        ELSE [result |-> Edited,
              buffer |-> SetContents(buffer, join(splitted, args.replace))]

\* edit gone wrong: the replaced text is kept as the original too
edit_MovesOriginal(buffer, args) ==
    LET splitted == split(buffer.contents, args.search)
        matches == Len(splitted) - 1
    IN  IF matches = 0
        THEN [result |-> NoMatch, buffer |-> buffer]
        ELSE IF matches # args.occurrences
        THEN [result |-> Ambiguous(matches), buffer |-> buffer]
        ELSE [result |-> Edited,
              buffer |-> [originalContents |-> join(splitted, args.replace),
                          contents |-> join(splitted, args.replace)]]

\* edit gone wrong: a failing edit puts the original contents back
edit_FailureRollsBack(buffer, args) ==
    LET splitted == split(buffer.contents, args.search)
        matches == Len(splitted) - 1
    IN  IF matches = 0
        THEN [result |-> NoMatch,
              buffer |-> SetContents(buffer, buffer.originalContents)]
        ELSE IF matches # args.occurrences
        THEN [result |-> Ambiguous(matches),
              buffer |-> SetContents(buffer, buffer.originalContents)]
        ELSE [result |-> Edited,
              buffer |-> SetContents(buffer, join(splitted, args.replace))]

\* edit gone wrong: the replaced text is committed before the count is checked
edit_CommitsBeforeCheck(buffer, args) ==
    LET splitted == split(buffer.contents, args.search)
        matches == Len(splitted) - 1
        replaced == SetContents(buffer, join(splitted, args.replace))
    IN  IF matches = 0
        THEN [result |-> NoMatch, buffer |-> replaced]
        ELSE IF matches # args.occurrences
        THEN [result |-> Ambiguous(matches), buffer |-> replaced]
        ELSE [result |-> Edited, buffer |-> replaced]

\* edit: the result and the buffer afterwards
edit(buffer, args) ==
    LET splitted == split(buffer.contents, args.search)
        matches == Len(splitted) - 1
    IN  IF matches = 0
        THEN [result |-> NoMatch, buffer |-> buffer]
        ELSE IF matches # args.occurrences
        THEN [result |-> Ambiguous(matches), buffer |-> buffer]
        ELSE [result |-> Edited,
              buffer |-> SetContents(buffer, join(splitted, args.replace))]

\* read gone wrong: the text as loaded is returned, not the current contents
read_ReturnsOriginal(buffer) ==
    [result |-> Page(buffer.originalContents), buffer |-> buffer]

\* read
read(buffer) == [result |-> Page(buffer.contents), buffer |-> buffer]

\* a tool call of the stream
ToolCall(id, name, raw) == [toolCallId |-> id, toolName |-> name, args |-> raw]

\* a tool-result part, { type: "tool-result", toolCallId, toolName, ...result }
ToolResultPart(call, result) ==
    [toolCallId |-> call.toolCallId, toolName |-> call.toolName,
     isError |-> result.isError, kind |-> result.kind,
     matches |-> result.matches, text |-> result.text]

\* toolImplementation[toolName]!(args): the handler's result, or the exception
\* thrown by calling a handler that does not exist
CallHandler(buffer, call) ==
    IF call.toolName = "edit"
    THEN [threw |-> FALSE, error |-> ""] @@ edit(buffer, parameters(call.args))
    ELSE IF call.toolName = "read"
    THEN [threw |-> FALSE, error |-> ""] @@ read(buffer)
    ELSE [threw |-> TRUE, error |-> "TypeError", result |-> NoMatch, buffer |-> buffer]

\* the loop body gone wrong: the catch logs the error and pushes no result
Invoke_CatchPushesNothing(buffer, call) ==
    LET out == CallHandler(buffer, call) IN
    IF out.threw
    THEN [uncaught |-> FALSE, buffer |-> out.buffer, parts |-> <<>>]
    ELSE [uncaught |-> FALSE, buffer |-> out.buffer,
          parts |-> <<ToolResultPart(call, out.result)>>]

\* the loop body gone wrong: no try/catch around the call of the handler
Invoke_NoCatch(buffer, call) ==
    LET out == CallHandler(buffer, call) IN
    IF out.threw
    THEN [uncaught |-> TRUE, buffer |-> out.buffer, parts |-> <<>>]
    ELSE [uncaught |-> FALSE, buffer |-> out.buffer,
          parts |-> <<ToolResultPart(call, out.result)>>]

\* the body of the for-of loop of iteration() for one tool call: try { call the
\* handler, push its result } catch { push an "Internal error" result }.
\* uncaught tells whether an exception leaves the loop body.
Invoke(buffer, call) ==
    LET out == CallHandler(buffer, call) IN
    IF out.threw
    THEN [uncaught |-> FALSE, buffer |-> out.buffer,
          parts |-> <<ToolResultPart(call, InternalError(out.error))>>]
    ELSE [uncaught |-> FALSE, buffer |-> out.buffer,
          parts |-> <<ToolResultPart(call, out.result)>>]

----------------------------------------------------------------------------
(* The session: what the human, the model and the document source supply. *)

\* the texts documentEditor.load() returns
RawDocs == {<<"a">>, <<"a", "a">>, <<"a", SP, CR, LF, "b">>}

\* the texts the human types at a prompt
Texts == {"fix"}

\* the tool calls the model emits: a name and the arguments it writes
CallChoices ==
    {[toolName |-> "edit", args |-> RawArgs(<<"a">>, <<"b">>, <<>>)],
     [toolName |-> "edit", args |-> RawArgs(<<"b">>, <<"a">>, <<1>>)],
     [toolName |-> "edit", args |-> RawArgs(<<"a">>, <<>>, <<2>>)],
     [toolName |-> "read", args |-> NoArgs],
     [toolName |-> "finish", args |-> NoArgs]}

\* a CoreMessage: its role, its text and its tool-call or tool-result parts
Message(role, text, parts) == [role |-> role, text |-> text, parts |-> parts]

\* AiSecretary.getPrompt(): the trimmed page inside <wiki_page> and the request
getPrompt(buffer, request) ==
    <<"<wiki_page>", LF>> \o trim(buffer) \o <<LF, "</wiki_page>", LF, LF, request>>

\* new DocumentBuffer(await documentEditor.load())
DocumentBuffer(raw) ==
    LET normalized == normalizeLineEndings(raw) IN
    [originalContents |-> normalized, contents |-> normalized]

\* the user messages pushed by feedback()
FeedbackCount == Len(SelectSeq(messages, LAMBDA m : m.role = "user")) - 1

\* the wiki document editor as createCreatorsgartenWikiEditor() returns it
WikiEditorInit ==
    /\ receivedRevision = ""
    /\ wikiLoads = <<>>
    /\ saveRequests = <<>>
    /\ wikiThrown = ""

Init ==
    /\ \E raw \in RawDocs :
         /\ loaded = raw
         /\ originalContents = DocumentBuffer(raw).originalContents
         /\ contents = DocumentBuffer(raw).contents
    /\ requestMessages = <<>>
    /\ WikiEditorInit
    /\ pc = "prompt"
    /\ messages = <<>>
    /\ currentMode = "info"
    /\ toolCalls = <<>>
    /\ idx = 1
    /\ toolResultParts = <<>>
    /\ requests = 0
    /\ runRequests = 0
    /\ runToolMessages = 0
    /\ nextCallId = 1
    /\ previousText = <<>>
    /\ saved = <<>>
    /\ outcome = "running"

----------------------------------------------------------------------------
(* main(): the initial prompt. *)

\* the initial prompt gone wrong: "No request." is logged and main() goes on
NoRequest_NoReturn ==
    /\ pc = "prompt"
    /\ messages' = <<Message("user", getPrompt(contents, ""), <<>>)>>
    /\ previousText' = contents
    /\ pc' = "request"
    /\ outcome' = "no_request"
    /\ UNCHANGED <<originalContents, contents, currentMode, toolCalls, idx,
                   toolResultParts, requests, runRequests, runToolMessages,
                   nextCallId, saved>>
    /\ UNCHANGED <<loaded, requestMessages, wikiVars>>

\* text() is canceled or returns the empty text: "No request.", return
NoRequest ==
    /\ pc = "prompt"
    /\ pc' = "exited"
    /\ outcome' = "no_request"
    /\ UNCHANGED <<originalContents, contents, messages, currentMode, toolCalls, idx,
                   toolResultParts, requests, runRequests, runToolMessages,
                   nextCallId, previousText, saved>>
    /\ UNCHANGED <<loaded, requestMessages, wikiVars>>

\* text() returns a request: previousText is set, the AiSecretary is made and its
\* run() makes the EditorAgent, whose constructor pushes the prompt, and runs it
InitialRequest ==
    /\ pc = "prompt"
    /\ \E request \in Texts :
         messages' = <<Message("user", getPrompt(contents, request), <<>>)>>
    /\ previousText' = contents
    /\ runRequests' = 0
    /\ runToolMessages' = 0
    /\ pc' = "request"
    /\ UNCHANGED <<originalContents, contents, currentMode, toolCalls, idx,
                   toolResultParts, requests, nextCallId, saved, outcome>>
    /\ UNCHANGED <<loaded, requestMessages, wikiVars>>

----------------------------------------------------------------------------
(* EditorAgent.iteration(): one turn. *)

\* streamText({ model, messages, tools }): a request to the model
SendRequest ==
    /\ pc = "request"
    /\ requests < MaxRequests
    /\ requests' = requests + 1
    /\ runRequests' = runRequests + 1
    /\ currentMode' = "info"
    /\ toolCalls' = <<>>
    /\ pc' = "streaming"
    /\ UNCHANGED <<originalContents, contents, messages, idx, toolResultParts,
                   runToolMessages, nextCallId, previousText, saved, outcome>>
    /\ requestMessages' = messages
    /\ UNCHANGED <<loaded, wikiVars>>

\* a text-delta part: mode("text") and the text is written out
StreamTextDelta ==
    /\ pc = "streaming"
    /\ currentMode' = "text"
    /\ UNCHANGED <<pc, originalContents, contents, messages, toolCalls, idx,
                   toolResultParts, requests, runRequests, runToolMessages,
                   nextCallId, previousText, saved, outcome>>
    /\ UNCHANGED <<loaded, requestMessages, wikiVars>>

\* a tool-call part: mode("info"), the call is shown; the stream keeps it in its
\* list of tool calls
StreamToolCall ==
    /\ pc = "streaming"
    /\ nextCallId <= MaxCalls
    /\ \E c \in CallChoices :
         toolCalls' = Append(toolCalls, ToolCall(nextCallId, c.toolName, c.args))
    /\ nextCallId' = nextCallId + 1
    /\ currentMode' = "info"
    /\ UNCHANGED <<pc, originalContents, contents, messages, idx, toolResultParts,
                   requests, runRequests, runToolMessages, previousText, saved,
                   outcome>>
    /\ UNCHANGED <<loaded, requestMessages, wikiVars>>

\* any other part: mode("info")
StreamOtherPart ==
    /\ pc = "streaming"
    /\ currentMode' = "info"
    /\ UNCHANGED <<pc, originalContents, contents, messages, toolCalls, idx,
                   toolResultParts, requests, runRequests, runToolMessages,
                   nextCallId, previousText, saved, outcome>>
    /\ UNCHANGED <<loaded, requestMessages, wikiVars>>

\* the failure gone wrong: it is caught and the request is made again
TransportFailure_Retried ==
    /\ pc = "streaming"
    /\ pc' = "request"
    /\ UNCHANGED <<originalContents, contents, messages, currentMode, toolCalls, idx,
                   toolResultParts, requests, runRequests, runToolMessages,
                   nextCallId, previousText, saved, outcome>>
    /\ UNCHANGED <<loaded, requestMessages, wikiVars>>

\* the transport fails while the stream is read or the response is awaited: the
\* exception leaves iteration(), run() and main(), which catch nothing
TransportFailure ==
    /\ pc = "streaming"
    /\ pc' = "exited"
    /\ outcome' = "failed"
    /\ UNCHANGED <<originalContents, contents, messages, currentMode, toolCalls, idx,
                   toolResultParts, requests, runRequests, runToolMessages,
                   nextCallId, previousText, saved>>
    /\ UNCHANGED <<loaded, requestMessages, wikiVars>>

\* the messages of the response: one assistant message with the tool-call
\* records of the turn
ResponseMessages(calls) == <<Message("assistant", <<"text">>, calls)>>

\* the stream ends: every message of the response is pushed, toolResultParts is
\* made and the loop over the tool calls starts
StreamCompleted ==
    /\ pc = "streaming"
    /\ messages' = messages \o ResponseMessages(toolCalls)
    /\ toolResultParts' = <<>>
    /\ idx' = 1
    /\ pc' = "dispatching"
    /\ UNCHANGED <<originalContents, contents, currentMode, toolCalls, requests,
                   runRequests, runToolMessages, nextCallId, previousText, saved,
                   outcome>>
    /\ UNCHANGED <<loaded, requestMessages, wikiVars>>

\* one pass of the loop over the tool calls
DispatchToolCall ==
    /\ pc = "dispatching"
    /\ idx <= Len(toolCalls)
    /\ LET buffer == [originalContents |-> originalContents, contents |-> contents]
           out == Invoke(buffer, toolCalls[idx])
       IN
         /\ originalContents' = out.buffer.originalContents
         /\ contents' = out.buffer.contents
         /\ toolResultParts' = toolResultParts \o out.parts
         /\ IF out.uncaught
            THEN pc' = "exited" /\ outcome' = "failed"
            ELSE UNCHANGED <<pc, outcome>>
    /\ idx' = idx + 1
    /\ UNCHANGED <<messages, currentMode, toolCalls, requests, runRequests,
                   runToolMessages, nextCallId, previousText, saved>>
    /\ UNCHANGED <<loaded, requestMessages, wikiVars>>

\* the test gone wrong: one result is not enough to go on
shouldContinue_MoreThanOne(parts) == Len(parts) > 1

\* whether iteration() returns true once the loop over the tool calls is over
shouldContinue(parts) == Len(parts) > 0

\* the tool message gone wrong: the results were collected by unshift, so the
\* last result comes first
ToolMessage_Reversed(parts) ==
    [role |-> "tool", text |-> <<>>,
     parts |-> [j \in 1..Len(parts) |-> parts[Len(parts) + 1 - j]]]

\* the tool message iteration() pushes
ToolMessage(parts) == Message("tool", <<>>, parts)

\* the loop gone wrong: run() gives up after its second turn
ContinueLoop_Capped ==
    /\ pc = "dispatching"
    /\ idx > Len(toolCalls)
    /\ shouldContinue(toolResultParts)
    /\ messages' = Append(messages, ToolMessage(toolResultParts))
    /\ runToolMessages' = runToolMessages + 1
    /\ toolCalls' = <<>>
    /\ toolResultParts' = <<>>
    /\ idx' = 1
    /\ currentMode' = "info"
    /\ pc' = IF runRequests < 2 THEN "request" ELSE "feedback"
    /\ previousText' = IF runRequests < 2 THEN previousText ELSE contents
    /\ UNCHANGED <<originalContents, contents, requests, runRequests, nextCallId,
                   saved, outcome>>
    /\ UNCHANGED <<loaded, requestMessages, wikiVars>>

\* toolResultParts is not empty: the tool message is pushed, iteration() returns
\* true and run() starts the next iteration
ContinueLoop ==
    /\ pc = "dispatching"
    /\ idx > Len(toolCalls)
    /\ shouldContinue(toolResultParts)
    /\ messages' = Append(messages, ToolMessage(toolResultParts))
    /\ runToolMessages' = runToolMessages + 1
    /\ toolCalls' = <<>>
    /\ toolResultParts' = <<>>
    /\ idx' = 1
    /\ currentMode' = "info"
    /\ pc' = "request"
    /\ UNCHANGED <<originalContents, contents, requests, runRequests, nextCallId,
                   previousText, saved, outcome>>
    /\ UNCHANGED <<loaded, requestMessages, wikiVars>>

\* toolResultParts is empty: iteration() returns false, run() returns, and main()
\* shows the diff when the contents changed and asks for feedback
ReturnToHuman ==
    /\ pc = "dispatching"
    /\ idx > Len(toolCalls)
    /\ ~shouldContinue(toolResultParts)
    /\ previousText' = contents
    /\ toolCalls' = <<>>
    /\ toolResultParts' = <<>>
    /\ idx' = 1
    /\ currentMode' = "info"
    /\ pc' = "feedback"
    /\ UNCHANGED <<originalContents, contents, messages, requests, runRequests,
                   runToolMessages, nextCallId, saved, outcome>>
    /\ UNCHANGED <<loaded, requestMessages, wikiVars>>

----------------------------------------------------------------------------
(* main(): the feedback loop and the end of the session. *)

\* the cancellation gone wrong: "Canceled." is logged and the loop is left by
\* break, so the end of main() is run
CancelFeedback_FallsThrough ==
    /\ pc = "feedback"
    /\ pc' = "exited"
    /\ outcome' = "canceled"
    /\ saved' = IF contents = originalContents THEN saved ELSE Append(saved, contents)
    /\ UNCHANGED <<originalContents, contents, messages, currentMode, toolCalls, idx,
                   toolResultParts, requests, runRequests, runToolMessages,
                   nextCallId, previousText>>
    /\ UNCHANGED <<loaded, requestMessages, wikiVars>>

\* the feedback prompt is canceled: "Canceled.", return
CancelFeedback ==
    /\ pc = "feedback"
    /\ pc' = "exited"
    /\ outcome' = "canceled"
    /\ UNCHANGED <<originalContents, contents, messages, currentMode, toolCalls, idx,
                   toolResultParts, requests, runRequests, runToolMessages,
                   nextCallId, previousText, saved>>
    /\ UNCHANGED <<loaded, requestMessages, wikiVars>>

\* feedback gone wrong: a new conversation is started from the feedback text
Feedback_ResetsConversation ==
    /\ pc = "feedback"
    /\ FeedbackCount < MaxFeedback
    /\ \E feedbackText \in Texts :
         messages' = <<Message("user", <<feedbackText>>, <<>>)>>
    /\ runRequests' = 0
    /\ runToolMessages' = 0
    /\ pc' = "request"
    /\ UNCHANGED <<originalContents, contents, currentMode, toolCalls, idx,
                   toolResultParts, requests, nextCallId, previousText, saved,
                   outcome>>
    /\ UNCHANGED <<loaded, requestMessages, wikiVars>>

\* the feedback is a text: feedback() pushes it as a user message and runs the loop
Feedback ==
    /\ pc = "feedback"
    /\ FeedbackCount < MaxFeedback
    /\ \E feedbackText \in Texts :
         messages' = Append(messages, Message("user", <<feedbackText>>, <<>>))
    /\ runRequests' = 0
    /\ runToolMessages' = 0
    /\ pc' = "request"
    /\ UNCHANGED <<originalContents, contents, currentMode, toolCalls, idx,
                   toolResultParts, requests, nextCallId, previousText, saved,
                   outcome>>
    /\ UNCHANGED <<loaded, requestMessages, wikiVars>>

\* the end of main() gone wrong: the contents are compared with previousText
FinishUnchanged_ComparesPrevious ==
    /\ pc = "feedback"
    /\ contents = previousText
    /\ pc' = "exited"
    /\ outcome' = "warned"
    /\ UNCHANGED <<originalContents, contents, messages, currentMode, toolCalls, idx,
                   toolResultParts, requests, runRequests, runToolMessages,
                   nextCallId, previousText, saved>>
    /\ UNCHANGED <<loaded, requestMessages, wikiVars>>

\* the feedback is empty and the contents equal the original: a warning, no save
FinishUnchanged ==
    /\ pc = "feedback"
    /\ contents = originalContents
    /\ pc' = "exited"
    /\ outcome' = "warned"
    /\ UNCHANGED <<originalContents, contents, messages, currentMode, toolCalls, idx,
                   toolResultParts, requests, runRequests, runToolMessages,
                   nextCallId, previousText, saved>>
    /\ UNCHANGED <<loaded, requestMessages, wikiVars>>

\* the feedback is empty and the contents differ: documentEditor.save(contents)
FinishSave ==
    /\ pc = "feedback"
    /\ contents # originalContents
    /\ saved' = Append(saved, contents)
    /\ pc' = "exited"
    /\ outcome' = "saved"
    /\ UNCHANGED <<originalContents, contents, messages, currentMode, toolCalls, idx,
                   toolResultParts, requests, runRequests, runToolMessages,
                   nextCallId, previousText>>
    /\ UNCHANGED <<loaded, requestMessages, wikiVars>>

\* the feedback is empty, the contents differ and documentEditor.save(contents)
\* throws: the exception leaves main()
FinishSaveFails ==
    /\ pc = "feedback"
    /\ contents # originalContents
    /\ saved' = Append(saved, contents)
    /\ pc' = "exited"
    /\ outcome' = "save_failed"
    /\ UNCHANGED <<originalContents, contents, messages, currentMode, toolCalls, idx,
                   toolResultParts, requests, runRequests, runToolMessages,
                   nextCallId, previousText>>
    /\ UNCHANGED <<loaded, requestMessages, wikiVars>>

Next ==
    \/ NoRequest
    \/ InitialRequest
    \/ SendRequest
    \/ StreamTextDelta
    \/ StreamToolCall
    \/ StreamOtherPart
    \/ TransportFailure
    \/ StreamCompleted
    \/ DispatchToolCall
    \/ ContinueLoop
    \/ ReturnToHuman
    \/ CancelFeedback
    \/ Feedback
    \/ FinishUnchanged
    \/ FinishSave
    \/ FinishSaveFails

Spec == Init /\ [][Next]_vars

----------------------------------------------------------------------------
(* The edit tool on its own: the first turn of a session in which the model   *)
(* emits an edit and the same edit again, for every document, search text,    *)
(* replace text and occurrences value within the bounds.                      *)

Letters == {"a", "b"}

HelloDoc == <<"H", "e", "l", "l", "o", " ", "W", "o", "r", "l", "d", ".", " ",
              "H", "e", "l", "l", "o", " ", "M", "a", "r", "s", ".">>
Hello == <<"H", "e", "l", "l", "o">>
Hi == <<"H", "i">>

EditDocs == StringsUpTo(Letters, MaxDocLen) \cup {HelloDoc}
EditSearches == StringsUpTo(Letters, MaxSearchLen) \cup {Hello}
EditReplaces == StringsUpTo(Letters, MaxReplaceLen) \cup {Hi}
EditOccurrences == {<<>>} \cup {<<n>> : n \in 0..MaxOccurrences}

EditInit ==
    /\ \E raw \in EditDocs :
         /\ loaded = raw
         /\ originalContents = DocumentBuffer(raw).originalContents
         /\ contents = DocumentBuffer(raw).contents
         /\ previousText = DocumentBuffer(raw).contents
         /\ \E request \in Texts, search \in EditSearches, replace \in EditReplaces,
               occurrences \in EditOccurrences :
              /\ toolCalls = <<ToolCall(1, "edit", RawArgs(search, replace, occurrences)),
                               ToolCall(2, "edit", RawArgs(search, replace, occurrences))>>
              /\ messages =
                   <<Message("user", getPrompt(DocumentBuffer(raw).contents, request), <<>>)>>
                   \o ResponseMessages(toolCalls)
    /\ requestMessages = <<messages[1]>>
    /\ WikiEditorInit
    /\ pc = "dispatching"
    /\ currentMode = "info"
    /\ idx = 1
    /\ toolResultParts = <<>>
    /\ requests = 1
    /\ runRequests = 1
    /\ runToolMessages = 0
    /\ nextCallId = 3
    /\ saved = <<>>
    /\ outcome = "running"

EditNext == DispatchToolCall \/ ContinueLoop

EditSpec == EditInit /\ [][EditNext]_vars

----------------------------------------------------------------------------
(* What the claims speak of, defined on their own: occurrences by a scan.     *)

\* t is a substring of s
Contains(s, t) == \E i \in 1..(Len(s) + 1) : MatchesAt(s, t, i)

\* the occurrences of t in s met by a scan from the left that steps over each
\* occurrence it meets (the empty text occurs before every character and at the end)
RECURSIVE CountFrom(_, _, _)
CountFrom(s, t, i) ==
    IF i + Len(t) - 1 > Len(s) THEN 0
    ELSE IF MatchesAt(s, t, i)
    THEN 1 + CountFrom(s, t, IF Len(t) = 0 THEN i + 1 ELSE i + Len(t))
    ELSE CountFrom(s, t, i + 1)

Occurrences(s, t) == CountFrom(s, t, 1)

\* s with each of those occurrences of t replaced by r, all else kept
RECURSIVE ScanReplaceFrom(_, _, _, _)
ScanReplaceFrom(s, t, r, i) ==
    IF i > Len(s) THEN (IF Len(t) = 0 THEN r ELSE <<>>)
    ELSE IF MatchesAt(s, t, i)
    THEN IF Len(t) = 0
         THEN r \o <<s[i]>> \o ScanReplaceFrom(s, t, r, i + 1)
         ELSE r \o ScanReplaceFrom(s, t, r, i + Len(t))
    ELSE <<s[i]>> \o ScanReplaceFrom(s, t, r, i + 1)

ScanReplace(s, t, r) == ScanReplaceFrom(s, t, r, 1)

\* the characters of s
Chars(s) == {s[k] : k \in 1..Len(s)}

\* the occurrences value an edit call declares: 1 when the caller leaves it out
Declared(call) ==
    IF call.args.occurrences = <<>> THEN 1 ELSE call.args.occurrences[1]

\* this step runs the handler of the tool call at idx, an edit
EditStep ==
    /\ pc = "dispatching"
    /\ idx <= Len(toolCalls)
    /\ idx' = idx + 1
    /\ toolCalls[idx].toolName = "edit"

\* the result the step pushed for that call
Pushed == toolResultParts'[idx]

\* the step pushed exactly one result, for the call at idx
PushedOne ==
    /\ Len(toolResultParts') = Len(toolResultParts) + 1
    /\ Len(toolResultParts') = idx
    /\ Pushed.toolCallId = toolCalls[idx].toolCallId

----------------------------------------------------------------------------
(* C1 - C4: the edit tool (EditSpec). *)

\* C1: an edit whose search text is not empty and whose declared occurrences
\* (1 when left out) differ from the count n of occurrences in the contents
\* returns an error, the no-match error when n = 0 and else the ambiguous-match
\* error that reports n, and leaves the contents as they were.
C1_WrongCountIsRefused ==
    [][ (/\ EditStep
         /\ Len(toolCalls[idx].args.search) > 0
         /\ Occurrences(contents, toolCalls[idx].args.search) # Declared(toolCalls[idx]))
        => (/\ PushedOne
            /\ Pushed.isError
            /\ IF Occurrences(contents, toolCalls[idx].args.search) = 0
               THEN Pushed.kind = "NoMatch"
               ELSE /\ Pushed.kind = "Ambiguous"
                    /\ Pushed.matches = Occurrences(contents, toolCalls[idx].args.search)
            /\ contents' = contents) ]_vars

\* C1, witness: "Hello World. Hello Mars." with search "Hello" and occurrences
\* left out got the ambiguous-match error reporting 2, and is unchanged.
C1_Witness ==
    /\ pc = "dispatching"
    /\ idx = 2
    /\ toolCalls[1].args.search = Hello
    /\ toolCalls[1].args.occurrences = <<>>
    /\ toolResultParts[1].kind = "Ambiguous"
    /\ toolResultParts[1].matches = 2
    /\ contents = HelloDoc

\* the search text of the call at idx occurs n >= 1 times and n is declared
ExactCount ==
    /\ Occurrences(contents, toolCalls[idx].args.search) >= 1
    /\ Occurrences(contents, toolCalls[idx].args.search) = Declared(toolCalls[idx])

\* C2 as stated: an edit whose search text occurs exactly n >= 1 times, with
\* occurrences = n and a replace text that does not contain the search text,
\* succeeds and leaves contents without any occurrence of the search text.
C2_AsStated ==
    [][ (/\ EditStep
         /\ ExactCount
         /\ ~Contains(toolCalls[idx].args.replace, toolCalls[idx].args.search))
        => (/\ PushedOne
            /\ ~Pushed.isError
            /\ ~Contains(contents', toolCalls[idx].args.search)) ]_vars

\* C2, amended: such an edit succeeds, and it leaves contents without any
\* occurrence of the (non-empty) search text when the replace text is not empty
\* and has no character in common with the search text.
C2_NoOccurrenceLeft ==
    [][ (/\ EditStep
         /\ ExactCount
         /\ ~Contains(toolCalls[idx].args.replace, toolCalls[idx].args.search))
        => (/\ PushedOne
            /\ ~Pushed.isError
            /\ Pushed.kind = "Edited"
            /\ (/\ Len(toolCalls[idx].args.replace) > 0
                /\ Chars(toolCalls[idx].args.replace)
                     \cap Chars(toolCalls[idx].args.search) = {})
               => ~Contains(contents', toolCalls[idx].args.search)) ]_vars

\* C2, witness: "aaba" edited with search "a", replace "b" and occurrences 3
\* succeeded and became "bbbb", which holds no "a".
C2_Witness ==
    /\ pc = "dispatching"
    /\ idx = 2
    /\ originalContents = <<"a", "a", "b", "a">>
    /\ toolCalls[1].args = RawArgs(<<"a">>, <<"b">>, <<3>>)
    /\ toolResultParts[1].kind = "Edited"
    /\ contents = <<"b", "b", "b", "b">>


\* C3 as stated: a successful edit leaves the old contents with every occurrence
\* of the search text that a scan from the left meets replaced by the replace
\* text, and all other characters kept in place.
C3_AsStated ==
    [][ (EditStep /\ PushedOne /\ ~Pushed.isError)
        => contents' = ScanReplace(contents, toolCalls[idx].args.search,
                                   toolCalls[idx].args.replace) ]_vars

\* C3, amended: the same for a search text that is not empty.
C3_ReplacesEveryOccurrence ==
    [][ (/\ EditStep /\ PushedOne /\ ~Pushed.isError
         /\ Len(toolCalls[idx].args.search) > 0)
        => contents' = ScanReplace(contents, toolCalls[idx].args.search,
                                   toolCalls[idx].args.replace) ]_vars

\* C3, witness: "Hello World. Hello Mars." with search "Hello", replace "Hi" and
\* occurrences 2 became "Hi World. Hi Mars.".
C3_Witness ==
    /\ pc = "dispatching"
    /\ idx = 2
    /\ originalContents = HelloDoc
    /\ toolCalls[1].args = RawArgs(Hello, Hi, <<2>>)
    /\ toolResultParts[1].kind = "Edited"
    /\ contents = <<"H", "i", " ", "W", "o", "r", "l", "d", ".", " ",
                    "H", "i", " ", "M", "a", "r", "s", ".">>

\* this step runs the second of two equal edit calls, after the first succeeded,
\* and the replace text does not contain the search text
RepeatedEditStep ==
    /\ EditStep
    /\ idx = 2
    /\ toolCalls[1].toolName = "edit"
    /\ toolCalls[1].args = toolCalls[2].args
    /\ Len(toolResultParts) = 1
    /\ ~toolResultParts[1].isError
    /\ ~Contains(toolCalls[2].args.replace, toolCalls[2].args.search)

\* C4 as stated: the same edit applied a second time, after it succeeded and with
\* a replace text that does not contain the search text, returns the no-match
\* error and leaves the contents as the first call left them.
C4_AsStated ==
    [][ RepeatedEditStep
        => (PushedOne /\ Pushed.kind = "NoMatch" /\ contents' = contents) ]_vars

\* C4, amended: so it is when the search text no longer occurs in the contents
\* the first call left.
C4_SecondCallFindsNoMatch ==
    [][ (RepeatedEditStep /\ ~Contains(contents, toolCalls[2].args.search))
        => (/\ PushedOne
            /\ Pushed.isError
            /\ Pushed.kind = "NoMatch"
            /\ contents' = contents) ]_vars

\* C4, witness: "ab" edited twice with search "a", replace "b", occurrences 1:
\* the first call made it "bb", the second call returned the no-match error.
C4_Witness ==
    /\ pc = "dispatching"
    /\ idx = 3
    /\ originalContents = <<"a", "b">>
    /\ toolCalls[1].args = RawArgs(<<"a">>, <<"b">>, <<1>>)
    /\ toolCalls[2].args = toolCalls[1].args
    /\ toolResultParts[1].kind = "Edited"
    /\ toolResultParts[2].kind = "NoMatch"
    /\ contents = <<"b", "b">>


----------------------------------------------------------------------------
(* What the claims on the agent loop speak of. *)

\* the call identifiers of the parts of a message, in order
PartIds(m) == [j \in 1..Len(m.parts) |-> m.parts[j].toolCallId]

\* the parts of message m that carry the identifier id
PartsWithId(m, id) == {j \in 1..Len(m.parts) : m.parts[j].toolCallId = id}

\* the assistant messages that hold tool calls
TurnsWithCalls ==
    {p \in 1..Len(messages) : messages[p].role = "assistant" /\ Len(messages[p].parts) > 0}

\* the position of the last user message: the start of the current run()
RunStart ==
    LET users == {p \in 1..Len(messages) : messages[p].role = "user"} IN
    IF users = {} THEN 0 ELSE CHOOSE p \in users : \A q \in users : q <= p

\* the positions of the messages of the current run() with the given role
RunMessages(role) ==
    {p \in (RunStart + 1)..Len(messages) : messages[p].role = role}

----------------------------------------------------------------------------
(* C5 - C10: the buffer and the agent loop (Spec). *)

\* C5: contents equals originalContents right after construction, and no step
\* (tool call, model turn, feedback turn) changes originalContents.
C5_OriginalContentsKept ==
    /\ contents = originalContents
    /\ [][originalContents' = originalContents]_vars

\* C5, witness: after a turn with a successful edit and a read, and after a
\* feedback turn, contents differs from originalContents, which is as loaded.
C5_Witness ==
    /\ pc = "feedback"
    /\ FeedbackCount = 1
    /\ originalContents = <<"a", LF, "b">>
    /\ contents = <<"b", LF, "b">>
    /\ \E p \in 1..Len(messages) :
         /\ messages[p].role = "tool"
         /\ \E j \in 1..Len(messages[p].parts) : messages[p].parts[j].kind = "Page"

\* C6: each tool call of a turn gets exactly one result with its identifier: while
\* the calls are dispatched, the calls before idx have one result each and the
\* others none; in every other state (so whenever a request is sent) each turn
\* with tool calls is followed by a tool message with one result per call.
C6_OneResultPerCall ==
    \A p \in TurnsWithCalls :
        IF p = Len(messages)
        THEN /\ pc = "dispatching"
             /\ messages[p].parts = toolCalls
             /\ Len(toolResultParts) = idx - 1
             /\ \A c \in 1..Len(toolCalls) :
                  Cardinality({j \in 1..Len(toolResultParts) :
                                 toolResultParts[j].toolCallId = toolCalls[c].toolCallId})
                    = IF c < idx THEN 1 ELSE 0
        ELSE /\ messages[p + 1].role = "tool"
             /\ Len(messages[p + 1].parts) = Len(messages[p].parts)
             /\ \A c \in 1..Len(messages[p].parts) :
                  Cardinality(PartsWithId(messages[p + 1], messages[p].parts[c].toolCallId)) = 1

\* C6, witness: a request is being streamed after a turn of three calls, one that
\* succeeded, one that returned an error and one whose handler is missing.
C6_Witness ==
    /\ pc = "streaming"
    /\ Len(messages) = 3
    /\ messages[3].role = "tool"
    /\ Len(messages[3].parts) = 3
    /\ {messages[3].parts[j].kind : j \in 1..3} = {"Edited", "NoMatch", "Internal"}

\* C7: a tool message comes right after the assistant message of its turn and
\* holds the results in the order of the calls of that turn; a turn with tool
\* calls is followed by exactly one tool message once it is over, and a turn
\* without tool calls by none.
C7_OneToolMessageInOrder ==
    /\ \A p \in 1..Len(messages) :
         messages[p].role = "tool"
           => /\ p > 1
              /\ messages[p - 1].role = "assistant"
              /\ Len(messages[p].parts) >= 1
              /\ PartIds(messages[p]) = PartIds(messages[p - 1])
    /\ \A p \in 1..Len(messages) :
         messages[p].role = "assistant"
           => IF Len(messages[p].parts) = 0
              THEN p = Len(messages) \/ messages[p + 1].role = "user"
              ELSE IF p = Len(messages)
              THEN pc = "dispatching"
              ELSE messages[p + 1].role = "tool"

\* C7, witness: a turn of two calls got one tool message with the two results in
\* the order of the calls, and the next turn, without calls, got none.
C7_Witness ==
    /\ pc = "feedback"
    /\ Len(messages) = 4
    /\ messages[2].role = "assistant"
    /\ PartIds(messages[2]) = <<1, 2>>
    /\ messages[3].role = "tool"
    /\ PartIds(messages[3]) = <<1, 2>>
    /\ messages[4].role = "assistant"
    /\ Len(messages[4].parts) = 0

\* C8: when run() has returned, it has made k + 1 requests and pushed k tool
\* messages, where k counts its turns with tool calls, which all come before the
\* one turn without; and while it runs no user message comes between its turns.
C8_RequestsAndToolMessages ==
    LET turns == RunMessages("assistant")
        withCalls == turns \cap TurnsWithCalls
        k == Cardinality(withCalls)
    IN  /\ pc = "feedback"
          => /\ runRequests = k + 1
             /\ Cardinality(RunMessages("tool")) = k
             /\ runToolMessages = k
             /\ Cardinality(turns) = k + 1
             /\ messages[Len(messages)].role = "assistant"
             /\ Len(messages[Len(messages)].parts) = 0
        /\ pc = "request"
          => /\ runRequests = k
             /\ Cardinality(turns) = k
             /\ Cardinality(RunMessages("tool")) = k
        /\ pc \in {"streaming", "dispatching"}
          => runRequests = Cardinality(RunMessages("tool")) + 1

\* C8, witness: run() returned after two turns with a tool call and one without:
\* three requests, two tool messages.
C8_Witness ==
    /\ pc = "feedback"
    /\ FeedbackCount = 0
    /\ runRequests = 3
    /\ Cardinality(RunMessages("tool")) = 2

\* C8, witness of the case k = 0: run() returned after one turn.
C8_WitnessOneTurn ==
    /\ pc = "feedback"
    /\ FeedbackCount = 0
    /\ runRequests = 1
    /\ Cardinality(RunMessages("tool")) = 0

\* the result a call with a missing handler must get
IsInternalError(call, part) ==
    /\ part.toolCallId = call.toolCallId
    /\ part.toolName = call.toolName
    /\ part.isError
    /\ part.kind = "Internal"
    /\ part.text = <<"TypeError">>

\* C9: a call whose handler raises (a name without handler) gets an error result
\* that carries the failure; the session never fails while tool calls are
\* dispatched; the calls after it get their results; and the turn ends with the
\* tool message and the next request.
C9_HandlerFailureIsAbsorbed ==
    /\ pc = "dispatching"
         => \A j \in 1..Len(toolResultParts) :
              toolCalls[j].toolName \notin Handlers
                => IsInternalError(toolCalls[j], toolResultParts[j])
    /\ \A p \in TurnsWithCalls :
         /\ p = Len(messages) => (pc = "dispatching" /\ outcome = "running")
         /\ p < Len(messages)
              => /\ Len(messages[p + 1].parts) = Len(messages[p].parts)
                 /\ \A j \in 1..Len(messages[p].parts) :
                      messages[p].parts[j].toolName \notin Handlers
                        => IsInternalError(messages[p].parts[j], messages[p + 1].parts[j])

\* C9, witness: the first call of a turn had no handler and got the internal
\* error, the second call of the turn was still run and succeeded, and the next
\* request has been sent.
C9_Witness ==
    /\ pc = "streaming"
    /\ requests = 2
    /\ Len(messages) = 3
    /\ Len(messages[2].parts) = 2
    /\ messages[2].parts[1].toolName = "finish"
    /\ messages[3].parts[1].kind = "Internal"
    /\ messages[3].parts[2].kind = "Edited"
    /\ contents # originalContents

\* C10: a step that ends the stream without a response fails the session; while
\* the stream is read the buffer stays as it is, no result is made and no request
\* is sent; and once the session has failed nothing changes any more.
C10_TransportFailureEndsSession ==
    [][ /\ (pc = "streaming" /\ pc' # "streaming" /\ messages' = messages)
           => (pc' = "exited" /\ outcome' = "failed")
        /\ pc = "streaming"
           => /\ contents' = contents
              /\ originalContents' = originalContents
              /\ requests' = requests
              /\ toolResultParts' = <<>>
              /\ saved' = saved
        /\ outcome = "failed" => vars' = vars
        /\ outcome' = "failed"
           => \A c \in 1..Len(toolCalls') : \A p \in 1..Len(messages') :
                PartsWithId(messages'[p], toolCalls'[c].toolCallId) = {} ]_vars

\* C10, witness: the session failed in the second turn, after the stream had
\* given a tool call; the edit of the first turn is all that changed the buffer.
C10_Witness ==
    /\ outcome = "failed"
    /\ pc = "exited"
    /\ requests = 2
    /\ Len(toolCalls) = 1
    /\ toolCalls[1].toolName = "edit"
    /\ toolCalls[1].args = RawArgs(<<"b">>, <<"a">>, <<1>>)
    /\ originalContents = <<"a">>
    /\ contents = <<"b">>
    /\ saved = <<>>

----------------------------------------------------------------------------
(* C11 - C16, C19: the conversation, the end of the session, the tools.  *)

\* C11: every step keeps the messages there are and only appends; a feedback step
\* appends exactly one user message that holds the text; and every request hands
\* all the messages there are to the model.
C11_ConversationAppendOnly ==
    [][ /\ Len(messages') >= Len(messages)
        /\ SubSeq(messages', 1, Len(messages)) = messages
        /\ (pc = "feedback" /\ pc' = "request")
           => /\ Len(messages') = Len(messages) + 1
              /\ messages'[Len(messages')].role = "user"
              /\ \E t \in Texts : messages'[Len(messages')].text = <<t>>
              /\ messages'[Len(messages')].parts = <<>>
        /\ requests' # requests
           => /\ requests' = requests + 1
              /\ requestMessages' = messages
              /\ messages' = messages ]_vars

\* C11, witness: after a turn with a tool call, a turn without and a feedback, the
\* request of the feedback run carries all five messages.
C11_Witness ==
    /\ pc = "streaming"
    /\ FeedbackCount = 1
    /\ Len(messages) = 5
    /\ messages[3].role = "tool"
    /\ messages[5].role = "user"
    /\ messages[5].text = <<"fix">>
    /\ requestMessages = messages

\* C12: the step that ends the feedback with the empty text calls save, with the
\* contents, exactly when the contents differ from originalContents, and else
\* warns without a save; no other step calls save.
C12_SaveIffChanged ==
    [][ /\ (pc = "feedback" /\ pc' = "exited" /\ outcome' # "canceled")
           => IF contents # originalContents
              THEN /\ saved' = Append(saved, contents)
                   /\ outcome' \in {"saved", "save_failed"}
              ELSE /\ saved' = saved
                   /\ outcome' = "warned"
        /\ saved' # saved
           => (pc = "feedback" /\ pc' = "exited" /\ outcome' # "canceled") ]_vars

\* C12, witness: "a" was edited to "b" and back to "a"; the session ended with
\* the warning and without a save.
C12_Witness ==
    /\ outcome = "warned"
    /\ originalContents = <<"a">>
    /\ contents = <<"a">>
    /\ saved = <<>>
    /\ Len(messages) >= 3
    /\ messages[3].role = "tool"
    /\ Len(messages[3].parts) = 2
    /\ messages[3].parts[1].kind = "Edited"
    /\ messages[3].parts[2].kind = "Edited"

\* C13: a session ended by the cancellation of a prompt has made no save call,
\* and nothing happens after it.
C13_CancelSavesNothing ==
    [][ /\ outcome' \in {"canceled", "no_request"} => (saved' = <<>> /\ pc' = "exited")
        /\ outcome \in {"canceled", "no_request"} => vars' = vars ]_vars

\* C13, witness: the feedback prompt was canceled after an edit had changed the
\* contents; nothing was saved.
C13_Witness ==
    /\ outcome = "canceled"
    /\ pc = "exited"
    /\ contents # originalContents
    /\ saved = <<>>

\* C19: when the initial prompt gave no text, main() has returned with no agent
\* (no message), no request, no tool result, the contents as loaded and no save.
C19_NoRequestDoesNothing ==
    outcome = "no_request"
      => /\ pc = "exited"
         /\ messages = <<>>
         /\ requests = 0
         /\ requestMessages = <<>>
         /\ toolCalls = <<>>
         /\ toolResultParts = <<>>
         /\ contents = originalContents
         /\ saved = <<>>

\* C19, witness: the session ended at the initial prompt.
C19_Witness ==
    /\ outcome = "no_request"
    /\ pc = "exited"
    /\ messages = <<>>

\* what a tool call does to contents c, told by the scan: an edit whose
\* (non-empty) search text occurs as often as declared, and at least once,
\* replaces every occurrence; any other call leaves c
RefApply(c, call) ==
    IF /\ call.toolName = "edit"
       /\ Len(call.args.search) > 0
       /\ Occurrences(c, call.args.search) >= 1
       /\ Occurrences(c, call.args.search) = Declared(call)
    THEN ScanReplace(c, call.args.search, call.args.replace)
    ELSE c

\* the first n calls applied to c in order
RECURSIVE RefFold(_, _, _)
RefFold(c, calls, n) ==
    IF n = 0 THEN c ELSE RefApply(RefFold(c, calls, n - 1), calls[n])

\* C14: while calls of a turn are left, the only step there is runs the call at
\* idx, alone, against the contents the calls before it left: it pushes the one
\* result of that call, a failing call leaves contents as they are, and idx moves
\* to the next call whatever the result; so in the first turn contents is the
\* calls before idx applied in order to the contents as loaded.
C14_CallsAppliedInOrder ==
    /\ [](  (requests = 1 /\ pc = "dispatching")
            => contents = RefFold(originalContents, toolCalls, idx - 1))
    /\ [][ (pc = "dispatching" /\ idx <= Len(toolCalls))
           => /\ idx' = idx + 1
              /\ pc' = "dispatching"
              /\ toolCalls' = toolCalls
              /\ PushedOne
              /\ SubSeq(toolResultParts', 1, idx - 1) = toolResultParts
              /\ contents' = RefApply(contents, toolCalls[idx])
              /\ Pushed.isError => contents' = contents ]_vars

\* C14, witness: on "a", a turn of three calls: "a" to "b" succeeded, "a" to ""
\* with occurrences 2 failed on "b" and changed nothing, "b" to "a" then still
\* ran, on the "b" the first call had left, and succeeded.
C14_Witness ==
    /\ pc = "dispatching"
    /\ idx = 4
    /\ originalContents = <<"a">>
    /\ toolCalls[1].args = RawArgs(<<"a">>, <<"b">>, <<>>)
    /\ toolCalls[3].args = RawArgs(<<"b">>, <<"a">>, <<1>>)
    /\ toolResultParts[1].kind = "Edited"
    /\ toolResultParts[2].kind = "NoMatch"
    /\ toolResultParts[3].kind = "Edited"
    /\ contents = <<"a">>

\* C15: a step that changes contents is the run of an edit call by the loop whose
\* result is the success, and it leaves the whole replacement; every other step
\* leaves contents as they are.
C15_OnlySuccessfulEditChangesContents ==
    [][ contents' # contents
        => /\ pc = "dispatching"
           /\ pc' = "dispatching"
           /\ idx <= Len(toolCalls)
           /\ toolCalls[idx].toolName = "edit"
           /\ PushedOne
           /\ ~Pushed.isError
           /\ Pushed.kind = "Edited"
           /\ contents' = ScanReplace(contents, toolCalls[idx].args.search,
                                      toolCalls[idx].args.replace) ]_vars

\* C15, witness: on "aa", an edit with the wrong count returned an error and
\* changed nothing, a read changed nothing, and the edit with occurrences 2 made
\* the contents empty.
C15_Witness ==
    /\ pc = "dispatching"
    /\ idx = 4
    /\ originalContents = <<"a", "a">>
    /\ toolResultParts[1].kind = "Ambiguous"
    /\ toolResultParts[2].kind = "Page"
    /\ toolResultParts[2].text = <<"<wiki_page>", LF, "a", "a", LF, "</wiki_page>">>
    /\ toolResultParts[3].kind = "Edited"
    /\ contents = <<>>

\* C16: the run of a read call pushes a result that is no error and whose text is
\* the contents of that moment between "<wiki_page>\n" and "\n</wiki_page>", and
\* leaves contents and originalContents as they are.
C16_ReadReturnsContents ==
    [][ (/\ pc = "dispatching"
         /\ idx <= Len(toolCalls)
         /\ idx' = idx + 1
         /\ toolCalls[idx].toolName = "read")
        => /\ PushedOne
           /\ ~Pushed.isError
           /\ Pushed.text = <<"<wiki_page>", LF>> \o contents \o <<LF, "</wiki_page>">>
           /\ contents' = contents
           /\ originalContents' = originalContents ]_vars

\* C16, witness: on "a", a read that follows the edit of "a" to "b" in the same
\* turn returned the page with "b".
C16_Witness ==
    /\ pc = "dispatching"
    /\ idx = 3
    /\ originalContents = <<"a">>
    /\ toolResultParts[1].kind = "Edited"
    /\ toolResultParts[2].kind = "Page"
    /\ ~toolResultParts[2].isError
    /\ toolResultParts[2].text = <<"<wiki_page>", LF, "b", LF, "</wiki_page>">>
    /\ contents = <<"b">>

----------------------------------------------------------------------------
(* The construction of the buffer on its own: every loaded text over a letter, *)
(* the space, "\r" and "\n" within the bound.                                 *)

RawChars == {"a", SP, CR, LF}

LoadInit ==
    /\ loaded \in StringsUpTo(RawChars, MaxRawLen)
    /\ pc = "loading"
    /\ originalContents = <<>>
    /\ contents = <<>>
    /\ messages = <<>>
    /\ currentMode = "info"
    /\ toolCalls = <<>>
    /\ idx = 1
    /\ toolResultParts = <<>>
    /\ requests = 0
    /\ runRequests = 0
    /\ runToolMessages = 0
    /\ nextCallId = 1
    /\ previousText = <<>>
    /\ saved = <<>>
    /\ outcome = "running"
    /\ requestMessages = <<>>
    /\ WikiEditorInit

\* const buffer = new DocumentBuffer(await documentEditor.load())
LoadDocument ==
    /\ pc = "loading"
    /\ originalContents' = DocumentBuffer(loaded).originalContents
    /\ contents' = DocumentBuffer(loaded).contents
    /\ pc' = "prompt"
    /\ UNCHANGED <<messages, currentMode, toolCalls, idx, toolResultParts, requests,
                   runRequests, runToolMessages, nextCallId, previousText, saved,
                   outcome>>
    /\ UNCHANGED <<loaded, requestMessages, wikiVars>>

LoadNext == LoadDocument

LoadSpec == LoadInit /\ [][LoadNext]_vars

\* C17: the contents of the buffer built from a loaded text hold no "\r\n" and no
\* space directly before a "\n", and normalizing them again changes nothing.
C17_LineEndingsNormalized ==
    pc = "prompt"
      => /\ ~Contains(contents, <<CR, LF>>)
         /\ ~Contains(contents, <<SP, LF>>)
         /\ normalizeLineEndings(contents) = contents

\* what does hold of the built buffer: no space stands directly before a "\n"
NoSpaceBeforeNewline ==
    pc = "prompt" => ~Contains(contents, <<SP, LF>>)

----------------------------------------------------------------------------
(* The session with a transport that does not fail and a model that emits no *)
(* tool call in its last turn: every stream ends, and the code between two   *)
(* awaits runs to its end.                                                   *)

\* a tool-call part of a turn that is not the model's last
LiveStreamToolCall ==
    /\ requests < MaxRequests
    /\ StreamToolCall

\* feedback while the model has a turn left
LiveFeedback ==
    /\ requests < MaxRequests
    /\ Feedback

LiveNext ==
    \/ NoRequest
    \/ InitialRequest
    \/ SendRequest
    \/ StreamTextDelta
    \/ LiveStreamToolCall
    \/ StreamOtherPart
    \/ StreamCompleted
    \/ DispatchToolCall
    \/ ContinueLoop
    \/ ReturnToHuman
    \/ CancelFeedback
    \/ LiveFeedback
    \/ FinishUnchanged
    \/ FinishSave
    \/ FinishSaveFails

\* run() and iteration() go on by themselves: the request is sent, the stream
\* ends, the tool calls are dispatched and the turn ends
LiveFairness ==
    /\ WF_vars(SendRequest)
    /\ WF_vars(StreamCompleted)
    /\ WF_vars(DispatchToolCall)
    /\ WF_vars(ContinueLoop)
    /\ WF_vars(ReturnToHuman)

LiveSpec == Init /\ [][LiveNext]_vars /\ LiveFairness

\* the step that ends a turn of the loop
LoopTurnEnds == pc = "dispatching" /\ pc' # "dispatching"

\* the tool messages of the conversation
ToolMessages == {p \in 1..Len(messages) : messages[p].role = "tool"}

\* every result of the tool message at p is an error
AllErrors(p) == \A j \in 1..Len(messages[p].parts) : messages[p].parts[j].isError

\* the loop over the tool calls of a turn is over
TurnDispatched == pc = "dispatching" /\ idx > Len(toolCalls)

\* C18: the loop has no cap on its turns. A turn ends in the return of run() exactly
\* when it has no tool call and in the next request exactly when it has one,
\* whatever the turn's number and results; after a turn with a tool call the next
\* request can always be made; and with a model that ends on a turn without tool
\* calls the running loop always comes to the return of run().
C18_NoCapOnTurns ==
    /\ [][LoopTurnEnds => /\ (pc' = "feedback") <=> (Len(toolCalls) = 0)
                          /\ (pc' = "request") <=> (Len(toolCalls) > 0)]_vars
    /\ [](TurnDispatched /\ Len(toolCalls) > 0 => ENABLED ContinueLoop)
    /\ (pc \in {"request", "streaming", "dispatching"}) ~> (pc = "feedback")

\* C18, witness: the third request of a run() is made after two turns whose tool
\* results were all errors.
C18_Witness ==
    /\ pc = "streaming"
    /\ runRequests = 3
    /\ FeedbackCount = 0
    /\ Cardinality(ToolMessages) = 2
    /\ \A p \in ToolMessages : Len(messages[p].parts) > 0 /\ AllErrors(p)

----------------------------------------------------------------------------
(* The wiki document editor on its own: load and save called in any order.     *)
(* wikiLoads lists the revisions the view requests returned, saveRequests the  *)
(* bodies of the save requests sent, wikiThrown the error of the last call.    *)

PageRef == "wiki:Page"
\* a revision the view request returns; "" stands for a missing or empty one
Revisions == {"", "r1", "r2"}
WikiContents == {<<"a">>, <<"b">>}
FetchError == "FetchError"
CannotSave == "Cannot save: no revision received"

WikiRequestsSent == Len(wikiLoads) + Len(saveRequests)

WikiInit ==
    /\ loaded = <<>>
    /\ pc = "loading"
    /\ originalContents = <<>>
    /\ contents = <<>>
    /\ messages = <<>>
    /\ currentMode = "info"
    /\ toolCalls = <<>>
    /\ idx = 1
    /\ toolResultParts = <<>>
    /\ requests = 0
    /\ runRequests = 0
    /\ runToolMessages = 0
    /\ nextCallId = 1
    /\ previousText = <<>>
    /\ saved = <<>>
    /\ outcome = "running"
    /\ requestMessages = <<>>
    /\ WikiEditorInit

\* load(): the view request answers, the revision of the answer is remembered
WikiLoad ==
    /\ WikiRequestsSent < MaxWikiCalls
    /\ \E revision \in Revisions :
         /\ receivedRevision' = revision
         /\ wikiLoads' = Append(wikiLoads, revision)
    /\ wikiThrown' = ""
    /\ UNCHANGED <<saveRequests, sessionVars>>

\* load(): the view request fails, the error leaves load() before the assignment
WikiLoadFails ==
    /\ wikiThrown' = FetchError
    /\ UNCHANGED <<receivedRevision, wikiLoads, saveRequests, sessionVars>>

\* save gone wrong: a save that went through forgets the revision
WikiSave_ForgetsRevision ==
    /\ WikiRequestsSent < MaxWikiCalls
    /\ \E newContent \in WikiContents :
         IF receivedRevision = ""
         THEN /\ wikiThrown' = CannotSave
              /\ UNCHANGED <<receivedRevision, saveRequests>>
         ELSE /\ saveRequests' = Append(saveRequests,
                                        [pageRef |-> PageRef, newContent |-> newContent,
                                         oldRevision |-> receivedRevision])
              /\ receivedRevision' = ""
              /\ wikiThrown' = ""
    /\ UNCHANGED <<wikiLoads, sessionVars>>

\* save(contents): without a remembered revision it throws before any request;
\* otherwise the save request is sent, and it answers or fails
WikiSave ==
    /\ WikiRequestsSent < MaxWikiCalls
    /\ \E newContent \in WikiContents :
         IF receivedRevision = ""
         THEN /\ wikiThrown' = CannotSave
              /\ UNCHANGED saveRequests
         ELSE /\ saveRequests' = Append(saveRequests,
                                        [pageRef |-> PageRef, newContent |-> newContent,
                                         oldRevision |-> receivedRevision])
              /\ \E ok \in BOOLEAN : wikiThrown' = IF ok THEN "" ELSE FetchError
    /\ UNCHANGED <<receivedRevision, wikiLoads, sessionVars>>

WikiNext == WikiLoad \/ WikiLoadFails \/ WikiSave

WikiSpec == WikiInit /\ [][WikiNext]_vars

\* the revision received by the most recent load, "" before any
LastLoaded == IF wikiLoads = <<>> THEN "" ELSE wikiLoads[Len(wikiLoads)]

\* no load has received a revision that is not empty
NoRevisionYet == \A k \in 1..Len(wikiLoads) : wikiLoads[k] = ""

\* C20: save without a received revision throws "Cannot save" and sends nothing;
\* a save request that is sent carries the revision of the most recent load as
\* oldRevision; and save leaves the remembered revision as it is, which is always
\* the one of the most recent load.
C20_SaveCarriesLoadedRevision ==
    /\ [](receivedRevision = LastLoaded)
    /\ [][WikiSave /\ NoRevisionYet
            => wikiThrown' = CannotSave /\ saveRequests' = saveRequests]_vars
    /\ [][WikiSave => receivedRevision' = receivedRevision]_vars
    /\ [][saveRequests' # saveRequests
            => /\ Len(saveRequests') = Len(saveRequests) + 1
               /\ SubSeq(saveRequests', 1, Len(saveRequests)) = saveRequests
               /\ LastLoaded # ""
               /\ saveRequests'[Len(saveRequests')].oldRevision = LastLoaded
               /\ saveRequests'[Len(saveRequests')].pageRef = PageRef]_vars

\* C20, witness: a save before a load was refused, then a load that received "r1",
\* a save, a load that received "r2" and a save: the two requests carry "r1" and
\* "r2".
C20_Witness ==
    /\ Len(wikiLoads) = 2
    /\ wikiLoads[1] = "r1"
    /\ wikiLoads[2] = "r2"
    /\ Len(saveRequests) = 2
    /\ saveRequests[1].oldRevision = "r1"
    /\ saveRequests[2].oldRevision = "r2"

\* C20, the refused save: nothing was received, save threw and sent nothing.
C20_RefusedWitness ==
    /\ NoRevisionYet
    /\ wikiThrown = CannotSave
    /\ saveRequests = <<>>

====
